---------------------------- MODULE Spec2Model ----------------------------
(***************************************************************************)
(* A model of the byte-stream buffering core of LiteDT-rs: the wrapping    *)
(* sequence number Seq32, the receive buffer RecvBuffer and the send       *)
(* buffer SendBuffer.                                                      *)
(*                                                                         *)
(* The sequence space and the block size are scaled down: the source's     *)
(* u32 (2^32 positions, half-space 0x80000000) becomes 2^SeqBits and the   *)
(* source's 128 KiB block (RBUF_BLOCK_BIT = 17) becomes 2^RBUF_BLOCK_BIT   *)
(* bytes with the value given below.  Every arithmetic step keeps the      *)
(* source's wrapping (% SeqMod).                                           *)
(***************************************************************************)
EXTENDS Integers, Sequences, FiniteSets, TLC

\* ------------------------------------------------------------------ bounds

\* width of the sequence space (the source: 32)
SeqBits == 4

\* largest capacity handed to RecvBuffer::with_capacity; the window
\* RBUF_BLOCK_SIZE * max_blocks stays below half the sequence space, the
\* documented precondition of Seq32's comparison
MaxCap == 3

\* longest payload handed to RecvBuffer::write
MaxLen == 3

\* largest length handed to RecvBuffer::consume
MaxConsume == 7

\* largest limit handed to SendBuffer::new; the buffered span stays below
\* half the sequence space
MaxLimit == 5

\* largest mss handed to SendBuffer::new
MaxMss == 3

\* longest input handed to SendBuffer::push_back
MaxPush == 3

\* largest step of += on a Seq32
MaxStep == 3

\* payload bytes (a small alphabet stands for u8; 0 is also the zero fill)
Byte == {0, 1, 2, 3}

\* ------------------------------------------------------------------ Seq32

SeqMod == 2 ^ SeqBits

SeqHalf == SeqMod \div 2

Seq32 == 0 .. (SeqMod - 1)

wrapping_add(a, b) == (a + b) % SeqMod

wrapping_sub(a, b) == (((a - b) % SeqMod) + SeqMod) % SeqMod

\* a plausible slip in cmp: <= for < at the half-space threshold
cmp_mut(a, b) ==
    IF a = b THEN "Equal"
    ELSE IF wrapping_sub(a, b) <= SeqHalf THEN "Greater"
    ELSE "Less"

\* impl Ord for Seq32
cmp(a, b) ==
    IF a = b THEN "Equal"
    ELSE IF wrapping_sub(a, b) < SeqHalf THEN "Greater"
    ELSE "Less"

lt(a, b) == cmp(a, b) = "Less"

le(a, b) == cmp(a, b) # "Greater"

gt(a, b) == cmp(a, b) = "Greater"

ge(a, b) == cmp(a, b) # "Less"

\* ------------------------------------------------- BTreeMap<Seq32, _> order

\* the keys of a map in ascending order, as BTreeMap iterates them
RECURSIVE sorted_keys(_)
sorted_keys(S) ==
    IF S = {} THEN << >>
    ELSE LET k == CHOOSE x \in S : \A y \in S : y # x => lt(x, y)
         IN  << k >> \o sorted_keys(S \ {k})

\* BTreeMap::iter().next(): the least key
first_key(m) == sorted_keys(DOMAIN m)[1]

\* BTreeMap::iter().last(): the greatest key
last_key(m) == LET ks == sorted_keys(DOMAIN m) IN ks[Len(ks)]

\* the map without key k
map_remove(m, k) == [x \in (DOMAIN m) \ {k} |-> m[x]]

\* the map with key k set to v
map_insert(m, k, v) == [x \in (DOMAIN m) \cup {k} |-> IF x = k THEN v ELSE m[x]]

EmptyMap == [x \in {} |-> 0]


\* ------------------------------------------------------------- RecvBuffer

\* const RBUF_BLOCK_BIT (the source: 17)
RBUF_BLOCK_BIT == 1

RBUF_BLOCK_SIZE == 2 ^ RBUF_BLOCK_BIT

RBUF_BLOCK_MASK == RBUF_BLOCK_SIZE - 1

\* x & RBUF_BLOCK_MASK
block_mask(x) == x % RBUF_BLOCK_SIZE

\* x >> RBUF_BLOCK_BIT
block_shift(x) == x \div RBUF_BLOCK_SIZE

min(a, b) == IF a < b THEN a ELSE b

\* BytesMut::zeroed(RBUF_BLOCK_SIZE)
zeroed_block == [i \in 0 .. (RBUF_BLOCK_SIZE - 1) |-> 0]

\* RecvBuffer::with_capacity: the block count for a capacity in bytes
with_capacity_blocks(cap) ==
    (cap \div RBUF_BLOCK_SIZE) + (IF block_mask(cap) # 0 THEN 1 ELSE 0)

\* RecvBuffer::readable_size
readable_size_of(sp, rm) ==
    IF DOMAIN rm = {} THEN 0
    ELSE LET f == first_key(rm)
         IN  IF f = sp THEN wrapping_sub(rm[f], f) ELSE 0

\* RecvBuffer::peek: [some, panic, bytes]
peek_of(sp, rm, blks) ==
    LET readable   == readable_size_of(sp, rm)
        blk_offset == block_mask(sp)
        peek_size  == min(readable, RBUF_BLOCK_SIZE - blk_offset)
    IN  IF readable > 0
        THEN IF Len(blks) = 0
             THEN [some |-> FALSE, panic |-> TRUE, bytes |-> << >>]
             ELSE [some |-> TRUE, panic |-> FALSE,
                   bytes |-> [i \in 1 .. peek_size |-> blks[1][blk_offset + i - 1]]]
        ELSE [some |-> FALSE, panic |-> FALSE, bytes |-> << >>]

\* a plausible slip in the loop of consume: > for >=, so a consume that ends
\* on a block boundary keeps the block
RECURSIVE consume_loop_mut(_, _, _)
consume_loop_mut(sp, blks, remain) ==
    IF remain > 0
    THEN LET block_size == RBUF_BLOCK_SIZE - block_mask(sp)
         IN  IF remain > block_size
             THEN consume_loop_mut(wrapping_add(sp, block_size),
                                   IF Len(blks) = 0 THEN blks ELSE Tail(blks),
                                   remain - block_size)
             ELSE consume_loop_mut(wrapping_add(sp, remain), blks, 0)
    ELSE [start_pos |-> sp, blocks |-> blks]

\* the while loop of RecvBuffer::consume: advances start_pos, pops whole blocks
RECURSIVE consume_loop(_, _, _)
consume_loop(sp, blks, remain) ==
    IF remain > 0
    THEN LET block_size == RBUF_BLOCK_SIZE - block_mask(sp)
         IN  IF remain >= block_size
             THEN consume_loop(wrapping_add(sp, block_size),
                               IF Len(blks) = 0 THEN blks ELSE Tail(blks),
                               remain - block_size)
             ELSE consume_loop(wrapping_add(sp, remain), blks, 0)
    ELSE [start_pos |-> sp, blocks |-> blks]

\* a plausible slip in consume's check: <= for <
consume_short_mut(readable, len) == readable <= len

\* RecvBuffer::consume, the no-enough-data check
consume_short(readable, len) == readable < len

\* RecvBuffer::consume: [ret, start_pos, range_map, blocks]
consume_of(sp, rm, blks, len) ==
    IF len = 0
    THEN [ret |-> "ok", start_pos |-> sp, range_map |-> rm, blocks |-> blks]
    ELSE IF consume_short(readable_size_of(sp, rm), len)
    THEN [ret |-> "no-enough-data", start_pos |-> sp, range_map |-> rm, blocks |-> blks]
    ELSE LET orig_pos == first_key(rm)
             orig_end == rm[orig_pos]
             moved    == consume_loop(sp, blks, len)
             removed  == map_remove(rm, orig_pos)
         IN  [ret       |-> "ok",
              start_pos |-> moved.start_pos,
              range_map |-> IF moved.start_pos # orig_end
                            THEN map_insert(removed, moved.start_pos, orig_end)
                            ELSE removed,
              blocks    |-> moved.blocks]

\* the for loop of RecvBuffer::compress_range_map over the ranges after the
\* merged one: [end, removed]
RECURSIVE compress_loop(_, _, _, _, _)
compress_loop(rm, ks, i, merge_end, keys_to_remove) ==
    IF i > Len(ks)
    THEN [end |-> merge_end, removed |-> keys_to_remove]
    ELSE LET next_start == ks[i]
             next_end   == rm[ks[i]]
         IN  IF ge(merge_end, next_start)
             THEN IF ge(next_end, merge_end)
                  THEN compress_loop(rm, ks, i + 1, next_end,
                                     keys_to_remove \cup {next_start})
                  ELSE [end |-> merge_end, removed |-> keys_to_remove]
             ELSE [end |-> merge_end, removed |-> keys_to_remove]

\* RecvBuffer::compress_range_map
compress_range_map(rm, pos) ==
    LET ks == sorted_keys({k \in DOMAIN rm : ge(k, pos)})
        r  == compress_loop(rm, ks, 2, rm[ks[1]], {})
    IN  [k \in (DOMAIN rm) \ r.removed |-> IF k = ks[1] THEN r.end ELSE rm[k]]

\* RecvBuffer::write, "insert or update range map": the map before compression
\* and the key to compress from; dup when the predecessor covers the range
write_range_map(rm, pos, end) ==
    LET before == {k \in DOMAIN rm : le(k, pos)}
    IN  IF before # {}
        THEN LET ks   == sorted_keys(before)
                 last == ks[Len(ks)]
             IN  IF ge(rm[last], pos)
                 THEN IF ge(rm[last], end)
                      THEN [dup |-> TRUE, range_map |-> rm, merge_start |-> pos]
                      ELSE [dup |-> FALSE, range_map |-> map_insert(rm, last, end),
                            merge_start |-> last]
                 ELSE [dup |-> FALSE, range_map |-> map_insert(rm, pos, end),
                       merge_start |-> pos]
        ELSE [dup |-> FALSE, range_map |-> map_insert(rm, pos, end),
              merge_start |-> pos]

\* RecvBuffer::write, the allocation loop
RECURSIVE alloc_blocks(_, _)
alloc_blocks(blks, required_blocks) ==
    IF Len(blks) < required_blocks
    THEN alloc_blocks(Append(blks, zeroed_block), required_blocks)
    ELSE blks

\* RecvBuffer::write, the copy loop: [panic, blocks]
RECURSIVE copy_loop(_, _, _, _, _, _)
copy_loop(blks, data, block_start_pos, remain, buf_offset, data_offset) ==
    IF remain > 0
    THEN LET blk_id     == block_shift(wrapping_sub(buf_offset, block_start_pos))
             blk_offset == block_mask(buf_offset)
             copy_len   == min(remain, RBUF_BLOCK_SIZE - blk_offset)
         IN  IF blk_id >= Len(blks)
             THEN [panic |-> TRUE, blocks |-> blks]
             ELSE copy_loop(
                    [blks EXCEPT ![blk_id + 1] =
                        [j \in 0 .. (RBUF_BLOCK_SIZE - 1) |->
                            IF j >= blk_offset /\ j < blk_offset + copy_len
                            THEN data[data_offset + (j - blk_offset) + 1]
                            ELSE @[j]]],
                    data, block_start_pos, remain - copy_len,
                    wrapping_add(buf_offset, copy_len), data_offset + copy_len)
    ELSE [panic |-> FALSE, blocks |-> blks]

\* a plausible slip in max_size: the offset of start_pos in its block forgotten
write_max_size_mut(sp, mb) == RBUF_BLOCK_SIZE * mb

\* RecvBuffer::write, max_size
write_max_size(sp, mb) == RBUF_BLOCK_SIZE * mb - block_mask(sp)

\* RecvBuffer::write: [ret, range_map, blocks]
write_of(sp, mb, rm, blks, pos, data) ==
    LET end      == wrapping_add(pos, Len(data))
        max_size == write_max_size(sp, mb)
    IN  IF Len(data) > max_size
        THEN [ret |-> "size-limit-exceed", range_map |-> rm, blocks |-> blks]
        ELSE IF wrapping_sub(pos, sp) > max_size \/ wrapping_sub(end, sp) > max_size
        THEN [ret |-> "out-of-range", range_map |-> rm, blocks |-> blks]
        ELSE LET w == write_range_map(rm, pos, end)
             IN  IF w.dup
                 THEN [ret |-> "duplicated-data", range_map |-> rm, blocks |-> blks]
                 ELSE LET block_start_pos == wrapping_sub(sp, block_mask(sp))
                          required_blocks ==
                              block_shift(wrapping_sub(end, block_start_pos))
                              + (IF block_mask(end) = 0 THEN 0 ELSE 1)
                          c == copy_loop(alloc_blocks(blks, required_blocks), data,
                                         block_start_pos, Len(data), pos, 0)
                      IN  [ret       |-> IF c.panic THEN "panic" ELSE "ok",
                           range_map |-> compress_range_map(w.range_map, w.merge_start),
                           blocks    |-> c.blocks]

\* ------------------------------------------------------------- SendBuffer

\* the first n elements of a sequence
take(data, n) == SubSeq(data, 1, n)

\* the elements of a sequence from offset (0-based) to offset + n
slice(data, offset, n) == SubSeq(data, offset + 1, offset + n)

\* a plausible slip in the top-up condition: the check against unsent forgotten
can_extend_mut(pos, uns, ms, have) == ms > have

\* SendBuffer::push_back, the condition for topping up the last segment
can_extend(pos, uns, ms, have) == ge(pos, uns) /\ ms > have

\* a plausible slip in the top-up length: the whole input appended
extend_len_mut(ms, have, n) == n

\* SendBuffer::push_back, the number of bytes added to the last segment
extend_len(ms, have, n) == IF ms - have < n THEN ms - have ELSE n

\* SendBuffer::push_back, "if last segment was not full, extend last segment
\* first": [queue, enqueue, offset]
push_extend(q, enq, uns, ms, data) ==
    IF DOMAIN q = {}
    THEN [queue |-> q, enqueue |-> enq, offset |-> 0]
    ELSE LET pos == last_key(q)
         IN  IF can_extend(pos, uns, ms, Len(q[pos]))
             THEN LET copy_len == extend_len(ms, Len(q[pos]), Len(data))
                  IN  [queue   |-> map_insert(q, pos, q[pos] \o take(data, copy_len)),
                       enqueue |-> wrapping_add(enq, copy_len),
                       offset  |-> copy_len]
             ELSE [queue |-> q, enqueue |-> enq, offset |-> 0]

\* a plausible slip in the segment loop: enqueue advanced by mss, not by the
\* length of the segment
RECURSIVE push_segments_mut(_, _, _, _, _)
push_segments_mut(q, enq, ms, data, offset) ==
    IF offset < Len(data)
    THEN LET copy_len == IF ms < Len(data) - offset THEN ms ELSE Len(data) - offset
         IN  IF copy_len = 0
             THEN [hung |-> TRUE, queue |-> map_insert(q, enq, << >>), enqueue |-> enq]
             ELSE push_segments_mut(map_insert(q, enq, slice(data, offset, copy_len)),
                                    wrapping_add(enq, ms), ms, data, offset + copy_len)
    ELSE [hung |-> FALSE, queue |-> q, enqueue |-> enq]

\* SendBuffer::push_back, "create new segments": [hung, queue, enqueue].  With
\* copy_len = 0 the loop inserts an empty segment at the same key and never
\* advances: the call does not return.
RECURSIVE push_segments(_, _, _, _, _)
push_segments(q, enq, ms, data, offset) ==
    IF offset < Len(data)
    THEN LET copy_len == IF ms < Len(data) - offset THEN ms ELSE Len(data) - offset
         IN  IF copy_len = 0
             THEN [hung |-> TRUE, queue |-> map_insert(q, enq, << >>), enqueue |-> enq]
             ELSE push_segments(map_insert(q, enq, slice(data, offset, copy_len)),
                                wrapping_add(enq, copy_len), ms, data, offset + copy_len)
    ELSE [hung |-> FALSE, queue |-> q, enqueue |-> enq]

\* a plausible slip in the limit check: >= for >
push_over_limit_mut(sz, lim, n) == sz + n >= lim

\* SendBuffer::push_back, the limit check
push_over_limit(sz, lim, n) == sz + n > lim

\* SendBuffer::push_back: [ret, hung, queue, enqueue, size]
push_back_of(q, enq, uns, sz, lim, ms, data) ==
    IF push_over_limit(sz, lim, Len(data))
    THEN [ret |-> FALSE, hung |-> FALSE, queue |-> q, enqueue |-> enq, size |-> sz]
    ELSE LET e == push_extend(q, enq, uns, ms, data)
             c == push_segments(e.queue, e.enqueue, ms, data, e.offset)
         IN  [ret     |-> ~c.hung,
              hung    |-> c.hung,
              queue   |-> c.queue,
              enqueue |-> c.enqueue,
              size    |-> IF c.hung THEN sz ELSE sz + Len(data)]

\* a plausible slip in pop_unsent: the cursor advanced by one, not by the
\* length of the segment
pop_unsent_of_mut(q, enq, uns) ==
    IF ge(uns, enq)
    THEN [some |-> FALSE, panic |-> FALSE, pos |-> uns, bytes |-> << >>, unsent |-> uns]
    ELSE IF uns \notin DOMAIN q
    THEN [some |-> FALSE, panic |-> TRUE, pos |-> uns, bytes |-> << >>, unsent |-> uns]
    ELSE [some |-> TRUE, panic |-> FALSE, pos |-> uns, bytes |-> q[uns],
          unsent |-> wrapping_add(uns, 1)]

\* SendBuffer::pop_unsent: [some, panic, pos, bytes, unsent]
pop_unsent_of(q, enq, uns) ==
    IF ge(uns, enq)
    THEN [some |-> FALSE, panic |-> FALSE, pos |-> uns, bytes |-> << >>, unsent |-> uns]
    ELSE IF uns \notin DOMAIN q
    THEN [some |-> FALSE, panic |-> TRUE, pos |-> uns, bytes |-> << >>, unsent |-> uns]
    ELSE [some |-> TRUE, panic |-> FALSE, pos |-> uns, bytes |-> q[uns],
          unsent |-> wrapping_add(uns, Len(q[uns]))]

\* SendBuffer::get: [some, bytes]
get_of(q, pos) ==
    IF pos \in DOMAIN q THEN [some |-> TRUE, bytes |-> q[pos]]
    ELSE [some |-> FALSE, bytes |-> << >>]

\* SendBuffer::ack, the loop that removes the segments keyed in [start, end):
\* [panic, queue, acked].  BTreeMap::range panics on start > end.
RECURSIVE ack_loop(_, _, _, _)
ack_loop(q, start, end, acked) ==
    IF gt(start, end)
    THEN [panic |-> TRUE, queue |-> q, acked |-> acked]
    ELSE LET in_range == {k \in DOMAIN q : ge(k, start) /\ lt(k, end)}
         IN  IF in_range = {}
             THEN [panic |-> FALSE, queue |-> q, acked |-> acked]
             ELSE LET pos == sorted_keys(in_range)[1]
                  IN  ack_loop(map_remove(q, pos), wrapping_add(pos, 1), end, acked + 1)

\* a plausible slip in the guard: the check of end against unsent forgotten
ack_rejected_mut(uns, start, end) == le(end, start) \/ ge(start, uns)

\* SendBuffer::ack, the guard
ack_rejected(uns, start, end) == le(end, start) \/ ge(start, uns) \/ gt(end, uns)

\* the bytes held in the segments of q keyed in S
RECURSIVE segment_bytes(_, _)
segment_bytes(q, S) ==
    IF S = {} THEN 0
    ELSE LET k == CHOOSE x \in S : TRUE
         IN  Len(q[k]) + segment_bytes(q, S \ {k})

\* a plausible slip in the accounting: the bytes of the removed segments freed
\* at once, wherever they lie
ack_freed_mut(q, removed_q, orig_start, new_start) ==
    segment_bytes(q, (DOMAIN q) \ (DOMAIN removed_q))

\* SendBuffer::ack, the bytes taken off size when a segment remains:
\* *(new_start - orig_start)
ack_freed(q, removed_q, orig_start, new_start) == wrapping_sub(new_start, orig_start)

\* SendBuffer::ack: [ret, panic, queue, size]
ack_of(q, uns, sz, start, end) ==
    IF ack_rejected(uns, start, end)
    THEN [ret |-> 0, panic |-> FALSE, queue |-> q, size |-> sz]
    ELSE IF DOMAIN q = {}
    THEN [ret |-> 0, panic |-> FALSE, queue |-> q, size |-> sz]
    ELSE LET orig_start == first_key(q)
             l == ack_loop(q, start, end, 0)
         IN  IF l.panic
             THEN [ret |-> 0, panic |-> TRUE, queue |-> l.queue, size |-> sz]
             ELSE IF DOMAIN l.queue # {}
             THEN LET freed == ack_freed(q, l.queue, orig_start, first_key(l.queue))
                  IN  IF freed > sz
                      THEN [ret |-> 0, panic |-> TRUE, queue |-> l.queue, size |-> sz]
                      ELSE [ret |-> l.acked, panic |-> FALSE, queue |-> l.queue,
                            size |-> sz - freed]
             ELSE [ret |-> l.acked, panic |-> FALSE, queue |-> l.queue, size |-> 0]

\* --------------------------------------------------------------- RangeSet

\* RangeSet::pred: the last range whose start is <= pos: [some, start, end]
pred(m, pos) ==
    LET below == {k \in DOMAIN m : le(k, pos)}
    IN  IF below = {}
        THEN [some |-> FALSE, start |-> pos, end |-> pos]
        ELSE LET ks == sorted_keys(below)
             IN  [some |-> TRUE, start |-> ks[Len(ks)], end |-> m[ks[Len(ks)]]]

\* RangeSet::succ: the first range whose start is > pos: [some, start, end]
succ(m, pos) ==
    LET above == {k \in DOMAIN m : gt(k, pos)}
    IN  IF above = {}
        THEN [some |-> FALSE, start |-> pos, end |-> pos]
        ELSE LET ks == sorted_keys(above)
             IN  [some |-> TRUE, start |-> ks[1], end |-> m[ks[1]]]

\* a plausible slip in the predecessor test: > for >=
pred_touches_mut(p_end, start) == gt(p_end, start)

\* RangeSet::insert, p_end >= start: the predecessor overlaps or touches
pred_touches(p_end, start) == ge(p_end, start)

\* a plausible slip in the duplicate test: > for >=
pred_covers_mut(p_end, end) == gt(p_end, end)

\* RangeSet::insert, p_end >= end: the predecessor covers the whole range
pred_covers(p_end, end) == ge(p_end, end)

\* a plausible slip in the successor walk: >= for >
succ_apart_mut(s_start, end) == ge(s_start, end)

\* RangeSet::insert, s_start > end: the successor lies past a gap
succ_apart(s_start, end) == gt(s_start, end)

\* RangeSet::insert, "merge and remove overlapped successors": [map, end]
RECURSIVE insert_succ_loop(_, _, _)
insert_succ_loop(m, start, end) ==
    LET s == succ(m, start)
    IN  IF ~s.some THEN [map |-> m, end |-> end]
        ELSE IF succ_apart(s.start, end) THEN [map |-> m, end |-> end]
        ELSE IF le(end, s.end)
        THEN [map |-> map_remove(m, s.start), end |-> s.end]
        ELSE insert_succ_loop(map_remove(m, s.start), start, end)

\* RangeSet::insert: [ret, map]
insert_of(m, start, end) ==
    IF le(end, start) THEN [ret |-> FALSE, map |-> m]
    ELSE LET p       == pred(m, start)
             touches == p.some /\ pred_touches(p.end, start)
         IN  IF touches /\ pred_covers(p.end, end)
             THEN [ret |-> FALSE, map |-> m]
             ELSE LET m1     == IF touches THEN map_remove(m, p.start) ELSE m
                      start1 == IF touches THEN p.start ELSE start
                      l      == insert_succ_loop(m1, start1, end)
                  IN  [ret |-> TRUE, map |-> map_insert(l.map, start1, l.end)]

\* RangeSet::remove: [some, end, map]
remove_of(m, start) ==
    IF start \in DOMAIN m
    THEN [some |-> TRUE, end |-> m[start], map |-> map_remove(m, start)]
    ELSE [some |-> FALSE, end |-> start, map |-> m]

\* RangeSet::len
len_of(m) == Cardinality(DOMAIN m)

\* ------------------------------------------------------- RecvBuffer state

VARIABLES
    start_pos,      \* Seq32: first byte not yet consumed
    max_blocks,     \* block count computed by with_capacity
    range_map,      \* BTreeMap<Seq32, Seq32>: start |-> end
    blocks,         \* VecDeque<BytesMut>: sequence of blocks
    rpanic,         \* a RecvBuffer call indexed outside the blocks and panicked
    \* history of the RecvBuffer's calls (not part of the program's state)
    written         \* the positions written by a successful write and not yet
                    \* consumed

recv_vars == << start_pos, max_blocks, range_map, blocks, rpanic, written >>

\* ------------------------------------------------------- SendBuffer state

VARIABLES
    queue,          \* BTreeMap<Seq32, BytesMut>: segment start |-> bytes
    enqueue,        \* Seq32: next position to append
    unsent,         \* Seq32: next position not yet handed out
    size,           \* bytes counted against limit
    limit,
    mss,
    hung,           \* a push_back call is in a loop that never ends
    spanic,         \* a SendBuffer call panicked
    \* history of the SendBuffer's calls (not part of the program's state)
    accepted,       \* number of bytes accepted by push_back, modulo SeqMod
    handed          \* number of bytes handed out by pop_unsent, modulo SeqMod

send_vars == << queue, enqueue, unsent, size, limit, mss, hung, spanic,
                accepted, handed >>

\* --------------------------------------------------------- RangeSet state

VARIABLES
    rset,           \* RangeSet(BTreeMap<Seq32, Seq32>): start |-> end
    rbase           \* the caller's window: every position it passes lies
                    \* less than half the sequence space ahead of rbase

range_vars == << rset, rbase >>

\* ------------------------------------------------------------ Seq32 state

VARIABLES
    this,           \* Seq32: the left operand (self)
    other,          \* Seq32: the right operand
    ordering,       \* the result of this.cmp(&other), "none" before the call
    reverse         \* the result of other.cmp(&this), "none" before the call

seq_vars == << this, other, ordering, reverse >>

\* ----------------------------------------------------- RecvBuffer actions

\* The byte the sender's stream holds at position p.  Neighbouring positions
\* and positions one block apart hold different bytes, and no stream byte is
\* the zero fill.  The payload never decides a branch of write or consume, so
\* the calls the model makes carry the stream's own bytes; the formulas about
\* other payloads quantify over every payload.
Stream(p) == 1 + (p % 3)

\* the stream's bytes for the n positions from pos
stream_bytes(pos, n) == [i \in 1 .. n |-> Stream(wrapping_add(pos, i - 1))]

\* every payload of up to MaxLen bytes
Payloads == UNION {[1 .. n -> Byte] : n \in 0 .. MaxLen}

\* the positions of a payload of length n written at pos
positions_of(pos, n) == {wrapping_add(pos, i) : i \in 0 .. (n - 1)}

write_now(pos, data) == write_of(start_pos, max_blocks, range_map, blocks, pos, data)

consume_now(len) == consume_of(start_pos, range_map, blocks, len)

readable_size == readable_size_of(start_pos, range_map)

\* rbuf.write(pos, the n stream bytes from pos).  A refused write returns its
\* error before the first assignment, so it is enabled only past the three
\* early returns.
Write(pos, n) ==
    LET r == write_now(pos, stream_bytes(pos, n))
    IN  /\ ~rpanic
        /\ r.ret \notin {"size-limit-exceed", "out-of-range", "duplicated-data"}
        /\ range_map' = r.range_map
        /\ blocks' = r.blocks
        /\ rpanic' = (r.ret = "panic")
        /\ written' = IF r.ret = "ok" THEN written \cup positions_of(pos, n)
                      ELSE written
        /\ UNCHANGED << start_pos, max_blocks >>
        /\ UNCHANGED send_vars
        /\ UNCHANGED range_vars
        /\ UNCHANGED seq_vars

\* rbuf.consume(len), past the no-enough-data return
Consume(len) ==
    LET r == consume_now(len)
    IN  /\ ~rpanic
        /\ r.ret # "no-enough-data"
        /\ start_pos' = r.start_pos
        /\ range_map' = r.range_map
        /\ blocks' = r.blocks
        /\ written' = IF r.ret = "ok" THEN written \ positions_of(start_pos, len)
                      ELSE written
        /\ UNCHANGED << max_blocks, rpanic >>
        /\ UNCHANGED send_vars
        /\ UNCHANGED range_vars
        /\ UNCHANGED seq_vars

RecvNext ==
    \/ \E pos \in Seq32, n \in 0 .. MaxLen : Write(pos, n)
    \/ \E len \in 0 .. MaxConsume : Consume(len)


\* ----------------------------------------------------- SendBuffer actions

push_back_now(data) == push_back_of(queue, enqueue, unsent, size, limit, mss, data)

pop_unsent_now == pop_unsent_of(queue, enqueue, unsent)

ack_now(start, end) == ack_of(queue, unsent, size, start, end)

\* sbuf.push_back(the next n bytes of the application's stream), past the
\* return of false at the limit check
PushBack(n) ==
    LET r == push_back_now(stream_bytes(accepted, n))
    IN  /\ ~hung /\ ~spanic
        /\ ~push_over_limit(size, limit, n)
        /\ queue' = r.queue
        /\ enqueue' = r.enqueue
        /\ size' = r.size
        /\ hung' = r.hung
        /\ accepted' = IF r.ret THEN wrapping_add(accepted, n) ELSE accepted
        /\ UNCHANGED << unsent, limit, mss, spanic, handed >>
        /\ UNCHANGED recv_vars
        /\ UNCHANGED range_vars
        /\ UNCHANGED seq_vars

\* sbuf.pop_unsent()
PopUnsent ==
    LET r == pop_unsent_now
    IN  /\ ~hung /\ ~spanic
        /\ unsent' = r.unsent
        /\ spanic' = r.panic
        /\ handed' = IF r.some THEN wrapping_add(handed, Len(r.bytes)) ELSE handed
        /\ UNCHANGED << queue, enqueue, size, limit, mss, hung, accepted >>
        /\ UNCHANGED recv_vars
        /\ UNCHANGED range_vars
        /\ UNCHANGED seq_vars

\* sbuf.ack(start, end), past the return of 0 at the range check
Ack(start, end) ==
    LET r == ack_now(start, end)
    IN  /\ ~hung /\ ~spanic
        /\ ~ack_rejected(unsent, start, end)
        /\ queue' = r.queue
        /\ size' = r.size
        /\ spanic' = r.panic
        /\ UNCHANGED << enqueue, unsent, limit, mss, hung, accepted, handed >>
        /\ UNCHANGED recv_vars
        /\ UNCHANGED range_vars
        /\ UNCHANGED seq_vars

SendNext ==
    \/ \E n \in 0 .. MaxPush : PushBack(n)
    \/ PopUnsent
    \/ \E start \in Seq32, end \in Seq32 : Ack(start, end)

\* ------------------------------------------------------- RangeSet actions

\* the positions of the caller's window
Window == {wrapping_add(rbase, d) : d \in 0 .. (SeqHalf - 1)}

insert_now(start, end) == insert_of(rset, start, end)

\* range_set.insert(start, end), past the two returns of false
Insert(start, end) ==
    LET r == insert_now(start, end)
    IN  /\ r.ret
        /\ rset' = r.map
        /\ UNCHANGED rbase
        /\ UNCHANGED recv_vars
        /\ UNCHANGED send_vars
        /\ UNCHANGED seq_vars

\* range_set.remove(&start) of a stored range
Remove(start) ==
    LET r == remove_of(rset, start)
    IN  /\ r.some
        /\ rset' = r.map
        /\ UNCHANGED rbase
        /\ UNCHANGED recv_vars
        /\ UNCHANGED send_vars
        /\ UNCHANGED seq_vars

RangeNext ==
    \/ \E start \in Window, end \in Window : Insert(start, end)
    \/ \E start \in Window : Remove(start)

\* ---------------------------------------------------------- Seq32 actions

\* this.cmp(&other) and other.cmp(&this)
Compare ==
    /\ ordering = "none"
    /\ ordering' = cmp(this, other)
    /\ reverse' = cmp(other, this)
    /\ UNCHANGED << this, other >>
    /\ UNCHANGED recv_vars
    /\ UNCHANGED send_vars
    /\ UNCHANGED range_vars

\* this += n (impl AddAssign<u32>): the operand moves on, wrapping
AddAssign(n) ==
    /\ this' = wrapping_add(this, n)
    /\ ordering' = "none"
    /\ reverse' = "none"
    /\ UNCHANGED other
    /\ UNCHANGED recv_vars
    /\ UNCHANGED send_vars
    /\ UNCHANGED range_vars

SeqNext ==
    \/ Compare
    \/ \E n \in 1 .. MaxStep : AddAssign(n)

\* ------------------------------------------------------------------ specs

vars == << recv_vars, send_vars, range_vars, seq_vars >>

\* Seq32::from(raw) for any two raw values
SeqInit ==
    /\ this \in Seq32
    /\ other \in Seq32
    /\ ordering = "none"
    /\ reverse = "none"
    /\ start_pos = 0 /\ max_blocks = 0 /\ range_map = EmptyMap
    /\ blocks = << >> /\ rpanic = FALSE /\ written = {}
    /\ queue = EmptyMap /\ enqueue = 0 /\ unsent = 0 /\ size = 0
    /\ limit = 0 /\ mss = 0 /\ hung = FALSE /\ spanic = FALSE
    /\ accepted = 0 /\ handed = 0
    /\ rset = EmptyMap /\ rbase = 0

\* RangeSet::new(), used by a caller whose window starts at any position
RangeInit ==
    /\ rset = EmptyMap
    /\ rbase \in Seq32
    /\ this = 0 /\ other = 0 /\ ordering = "none" /\ reverse = "none"
    /\ start_pos = 0 /\ max_blocks = 0 /\ range_map = EmptyMap
    /\ blocks = << >> /\ rpanic = FALSE /\ written = {}
    /\ queue = EmptyMap /\ enqueue = 0 /\ unsent = 0 /\ size = 0
    /\ limit = 0 /\ mss = 0 /\ hung = FALSE /\ spanic = FALSE
    /\ accepted = 0 /\ handed = 0

\* RecvBuffer::with_capacity(cap) for some cap in 0 .. MaxCap; no SendBuffer
RecvInit ==
    /\ start_pos = 0
    /\ max_blocks \in {with_capacity_blocks(cap) : cap \in 0 .. MaxCap}
    /\ range_map = EmptyMap
    /\ blocks = << >>
    /\ rpanic = FALSE
    /\ written = {}
    /\ queue = EmptyMap /\ enqueue = 0 /\ unsent = 0 /\ size = 0
    /\ limit = 0 /\ mss = 0 /\ hung = FALSE /\ spanic = FALSE
    /\ accepted = 0 /\ handed = 0
    /\ rset = EmptyMap /\ rbase = 0
    /\ this = 0 /\ other = 0 /\ ordering = "none" /\ reverse = "none"

\* SendBuffer::new(limit, mss) for some limit in 0 .. MaxLimit and mss in
\* 0 .. MaxMss; no RecvBuffer
SendInit ==
    /\ queue = EmptyMap
    /\ enqueue = 0
    /\ unsent = 0
    /\ size = 0
    /\ limit \in 0 .. MaxLimit
    /\ mss \in 0 .. MaxMss
    /\ hung = FALSE
    /\ spanic = FALSE
    /\ accepted = 0
    /\ handed = 0
    /\ start_pos = 0 /\ max_blocks = 0 /\ range_map = EmptyMap
    /\ blocks = << >> /\ rpanic = FALSE /\ written = {}
    /\ rset = EmptyMap /\ rbase = 0
    /\ this = 0 /\ other = 0 /\ ordering = "none" /\ reverse = "none"

SpecRecv == RecvInit /\ [][RecvNext]_vars

SpecSend == SendInit /\ [][SendNext]_vars

SpecRange == RangeInit /\ [][RangeNext]_vars

SpecSeq == SeqInit /\ [][SeqNext]_vars

\* --------------------------------------------------- RecvBuffer properties

\* the length of the run of written, not yet consumed positions from p
RECURSIVE run_from(_, _)
run_from(p, n) ==
    IF n < SeqMod /\ p \in written THEN run_from(wrapping_add(p, 1), n + 1) ELSE n

run_len == run_from(start_pos, 0)

\* while rbuf.peek() is Some(s): deliver s, rbuf.consume(s.len())
RECURSIVE drain_of(_, _, _, _)
drain_of(sp, rm, blks, fuel) ==
    LET pk == peek_of(sp, rm, blks)
    IN  IF pk.panic THEN [panic |-> TRUE, bytes |-> << >>]
        ELSE IF ~pk.some \/ fuel = 0 THEN [panic |-> FALSE, bytes |-> << >>]
        ELSE LET c    == consume_of(sp, rm, blks, Len(pk.bytes))
                 rest == drain_of(c.start_pos, c.range_map, c.blocks, fuel - 1)
             IN  [panic |-> rest.panic, bytes |-> pk.bytes \o rest.bytes]

drained == drain_of(start_pos, range_map, blocks, SeqMod)

\* C1: round trip.  Every successful write carried the stream's bytes for its
\* positions, so in every state draining the buffer with peek and
\* consume(peek().len()) delivers exactly the stream's bytes for the run of
\* written positions that starts at start_pos: none missing, none added, in
\* order.
C1_RoundTrip ==
    ~rpanic => /\ ~drained.panic
               /\ drained.bytes = stream_bytes(start_pos, run_len)

\* C2: readable_size() is the length of the longest run of written and not yet
\* consumed positions that starts at start_pos (0 exactly when the byte at
\* start_pos is not written).
C2_ReadableIsRun ==
    ~rpanic => readable_size = run_len

\* a write(pos, data) passes the two window checks
passes_window(pos, n) ==
    /\ n <= write_max_size(start_pos, max_blocks)
    /\ wrapping_sub(pos, start_pos) <= write_max_size(start_pos, max_blocks)
    /\ wrapping_sub(wrapping_add(pos, n), start_pos)
           <= write_max_size(start_pos, max_blocks)

\* C3: a write of at least one byte that passes the window checks and whose
\* positions are all written and not yet consumed returns duplicated-data and
\* changes neither the range map nor a stored byte, whatever its payload.
C3_DuplicateRejected ==
    ~rpanic =>
        \A pos \in Seq32, data \in Payloads :
            (/\ Len(data) >= 1
             /\ passes_window(pos, Len(data))
             /\ positions_of(pos, Len(data)) \subseteq written)
            => /\ write_now(pos, data).ret = "duplicated-data"
               /\ write_now(pos, data).range_map = range_map
               /\ write_now(pos, data).blocks = blocks

\* the window W of the claim: max_blocks * block_size - (start_pos mod block_size)
window_W == max_blocks * (2 ^ RBUF_BLOCK_BIT) - (start_pos % (2 ^ RBUF_BLOCK_BIT))

\* the forward distance from start_pos to p
forward(p) == (p + SeqMod - start_pos) % SeqMod

\* C4: write returns size-limit-exceed when the payload is longer than W, and
\* otherwise out-of-range when pos or pos + len lies more than W ahead of
\* start_pos, which includes every pos behind start_pos; both leave the range
\* map and the blocks as they were (write never assigns start_pos).
C4_WindowChecks ==
    \A pos \in Seq32, n \in 0 .. MaxLen :
        LET r == write_now(pos, stream_bytes(pos, n))
        IN  /\ n > window_W => r.ret = "size-limit-exceed"
            /\ (n <= window_W /\ (forward(pos) > window_W
                                  \/ forward((pos + n) % SeqMod) > window_W))
                   => r.ret = "out-of-range"
            /\ lt(pos, start_pos) => r.ret \in {"size-limit-exceed", "out-of-range"}
            /\ r.ret \in {"size-limit-exceed", "out-of-range"}
                   => (r.range_map = range_map /\ r.blocks = blocks)

\* C4's case: bytes were consumed, and in this state a write behind start_pos
\* is refused as out-of-range and a too long one as size-limit-exceed
C4_Witness ==
    /\ start_pos # 0
    /\ written # {}
    /\ \E pos \in Seq32 :
           /\ lt(pos, start_pos)
           /\ write_now(pos, stream_bytes(pos, 1)).ret = "out-of-range"
    /\ \E n \in 0 .. MaxLen :
           write_now(start_pos, stream_bytes(start_pos, n)).ret = "size-limit-exceed"

\* C5: consume(len) succeeds exactly when len <= readable_size(); otherwise it
\* returns no-enough-data and leaves start_pos, the range map and the blocks
\* as they were; consume(0) succeeds and changes nothing.
C5_ConsumeChecks ==
    \A len \in 0 .. MaxConsume :
        LET r == consume_now(len)
        IN  /\ (r.ret = "ok") <=> (len <= readable_size)
            /\ len > readable_size =>
                   /\ r.ret = "no-enough-data"
                   /\ r.start_pos = start_pos
                   /\ r.range_map = range_map
                   /\ r.blocks = blocks
            /\ len = 0 =>
                   /\ r.start_pos = start_pos
                   /\ r.range_map = range_map
                   /\ r.blocks = blocks
            /\ (r.ret = "ok" /\ len > 0) =>
                   r.start_pos = wrapping_add(start_pos, len)

\* C5's case: after a consume moved start_pos, some bytes are readable, a
\* consume of all of them succeeds and one more byte is refused
C5_Witness ==
    /\ start_pos # 0
    /\ readable_size > 0
    /\ consume_now(readable_size).ret = "ok"
    /\ consume_now(readable_size + 1).ret = "no-enough-data"

\* C17: the ranges of the range map are non-empty, pairwise disjoint and
\* non-touching, and none starts before start_pos.
C17_RangesDisjoint ==
    ~rpanic =>
        /\ \A k \in DOMAIN range_map : lt(k, range_map[k])
        /\ \A k1 \in DOMAIN range_map, k2 \in DOMAIN range_map :
               lt(k1, k2) => lt(range_map[k1], k2)
        /\ \A k \in DOMAIN range_map : ge(k, start_pos)

\* C18: a write with an empty payload that passes the window checks returns
\* duplicated-data and leaves the range map as it was; no range with
\* start = end is stored.
C18_EmptyWriteRejected ==
    ~rpanic =>
        /\ \A pos \in Seq32 :
               passes_window(pos, 0) =>
                   /\ write_now(pos, << >>).ret = "duplicated-data"
                   /\ write_now(pos, << >>).range_map = range_map
        /\ \A k \in DOMAIN range_map : range_map[k] # k

\* the first position of the block that holds start_pos
block_start_pos == wrapping_sub(start_pos, block_mask(start_pos))

\* C19: at most max_blocks blocks are allocated, and the first block of the
\* deque is the block that holds start_pos: no write and no peek indexes
\* outside the allocated blocks, and every written, not yet consumed position
\* p has its byte in block (p - block_start_pos) >> RBUF_BLOCK_BIT, counted
\* from the front, at offset p & RBUF_BLOCK_MASK.
C19_BlocksAligned ==
    /\ ~rpanic
    /\ Len(blocks) <= max_blocks
    /\ \A pos \in Seq32, n \in 0 .. MaxLen :
           write_now(pos, stream_bytes(pos, n)).ret # "panic"
    /\ ~peek_of(start_pos, range_map, blocks).panic
    /\ \A len \in 0 .. MaxConsume :
           LET r == consume_now(len)
           IN  (r.ret = "ok" /\ len > 0) =>
                   Len(r.blocks) = Len(blocks)
                       - block_shift(block_mask(start_pos) + len)
    /\ \A p \in written :
           LET blk_id == block_shift(wrapping_sub(p, block_start_pos))
           IN  /\ blk_id < Len(blocks)
               /\ blocks[blk_id + 1][block_mask(p)] = Stream(p)

\* C19's case: start_pos is inside a block after a consume across a block
\* boundary, every block is allocated, a position of the last block is
\* written, and a write up to the end of the window is accepted
C19_Witness ==
    /\ start_pos >= RBUF_BLOCK_SIZE
    /\ block_mask(start_pos) # 0
    /\ Len(blocks) = max_blocks
    /\ max_blocks >= 2
    /\ \E p \in written :
           block_shift(wrapping_sub(p, block_start_pos)) = max_blocks - 1
    /\ \E pos \in Seq32, n \in 1 .. MaxLen :
           /\ wrapping_sub(wrapping_add(pos, n), start_pos)
                  = write_max_size(start_pos, max_blocks)
           /\ write_now(pos, stream_bytes(pos, n)).ret = "ok"

\* --------------------------------------------------- SendBuffer properties

\* the forward distance from a to b
distance(a, b) == (b + SeqMod - a) % SeqMod

\* ack(start, end) is accepted: a non-empty range of bytes already handed out
ack_accepted(start, end) == gt(end, start) /\ lt(start, unsent) /\ le(end, unsent)

\* C6: ack frees capacity only cumulatively.  An accepted ack takes off size
\* exactly the distance by which the earliest buffered key advanced, sets it
\* to 0 when no segment remains, and leaves it as it was when the earliest
\* segment stays; so size always counts the whole span from the earliest
\* buffered key to enqueue, removed segments behind it included.
C6_AckCumulative ==
    (~hung /\ ~spanic) =>
        /\ DOMAIN queue = {} => size = 0
        /\ DOMAIN queue # {} => size = distance(first_key(queue), enqueue)
        /\ \A start \in Seq32, end \in Seq32 :
               (ack_accepted(start, end) /\ DOMAIN queue # {}) =>
                   LET r == ack_now(start, end)
                   IN  /\ ~r.panic
                       /\ DOMAIN r.queue = {} => r.size = 0
                       /\ DOMAIN r.queue # {} =>
                              r.size = size - distance(first_key(queue),
                                                       first_key(r.queue))
                       /\ first_key(queue) \in DOMAIN r.queue => r.size = size

\* C6's case: an ack removed a segment behind the earliest one, whose bytes
\* are still counted in size, and an ack of the earliest segment frees them too
C6_Witness ==
    /\ ~hung /\ ~spanic
    /\ DOMAIN queue # {}
    /\ size > segment_bytes(queue, DOMAIN queue)
    /\ \E start \in Seq32, end \in Seq32 :
           /\ ack_accepted(start, end)
           /\ ack_now(start, end).ret = 1
           /\ size - ack_now(start, end).size > Len(queue[first_key(queue)])

\* C7: pop_unsent hands out every accepted byte once and in push order.  It
\* returns None exactly when every accepted byte was handed out; otherwise its
\* position is the number of bytes handed out so far (0 at first, then where
\* the previous result ended) and its bytes are the next bytes pushed.
C7_PopInOrder ==
    (~hung /\ ~spanic) =>
        LET r    == pop_unsent_now
            left == distance(handed, accepted)
        IN  /\ ~r.panic
            /\ r.some <=> left > 0
            /\ r.some => /\ r.pos = handed
                         /\ Len(r.bytes) >= 1
                         /\ Len(r.bytes) <= left
                         /\ r.bytes = stream_bytes(handed, Len(r.bytes))

\* C7's case: the sequence space wrapped, bytes were handed out and acked, and
\* the next segment to hand out was topped up or follows a sent one
C7_Witness ==
    /\ ~hung /\ ~spanic
    /\ pop_unsent_now.some
    /\ handed > accepted
    /\ first_key(queue) # handed

\* C8: size <= limit; push_back returns false exactly when size + len > limit,
\* and then the queue, enqueue and size are as they were (push_back never
\* assigns unsent).
C8_LimitGate ==
    (~hung /\ ~spanic) =>
        /\ size <= limit
        /\ \A n \in 0 .. MaxPush :
               LET r == push_back_now(stream_bytes(accepted, n))
               IN  /\ (~r.ret /\ ~r.hung) <=> (size + n > limit)
                   /\ (~r.ret /\ ~r.hung) =>
                          /\ r.queue = queue
                          /\ r.enqueue = enqueue
                          /\ r.size = size

\* C8's case: the buffer is full and a push of one byte is refused
C8_Witness ==
    /\ ~hung /\ ~spanic
    /\ limit > 0
    /\ size = limit
    /\ ~push_back_now(stream_bytes(accepted, 1)).ret

\* C9: every buffered segment holds at most mss bytes, so every slice that
\* pop_unsent or get returns has at most mss bytes.
C9_SegmentAtMostMss ==
    /\ \A k \in DOMAIN queue : Len(queue[k]) <= mss
    /\ (~hung /\ ~spanic) => Len(pop_unsent_now.bytes) <= mss
    /\ \A pos \in Seq32 : Len(get_of(queue, pos).bytes) <= mss

\* C9's case: the last segment is short and not yet handed out, and a push
\* longer than its room tops it up to exactly mss bytes
C9_Witness ==
    /\ ~hung /\ ~spanic
    /\ DOMAIN queue # {}
    /\ LET k == last_key(queue)
       IN  /\ Len(queue[k]) < mss
           /\ \E n \in 0 .. MaxPush :
                  LET r == push_back_now(stream_bytes(accepted, n))
                  IN  /\ r.ret
                      /\ n > mss - Len(queue[k])
                      /\ Len(r.queue[k]) = mss

\* C10: ack returns 0 whenever end <= start, start >= unsent or end > unsent,
\* and whenever it returns 0 the queue and size are as they were (ack never
\* assigns enqueue or unsent).
C10_AckRejected ==
    (~hung /\ ~spanic) =>
        \A start \in Seq32, end \in Seq32 :
            LET r == ack_now(start, end)
            IN  /\ (le(end, start) \/ ge(start, unsent) \/ gt(end, unsent))
                       => r.ret = 0
                /\ r.ret = 0 => (~r.panic /\ r.queue = queue /\ r.size = size)

\* C10's case: an ack removed a segment behind the earliest one; acking a range
\* inside the buffered span that holds no segment any more is accepted and
\* returns 0, and an ack of a range beyond unsent is rejected
C10_Witness ==
    /\ ~hung /\ ~spanic
    /\ DOMAIN queue # {}
    /\ unsent # enqueue
    /\ size > segment_bytes(queue, DOMAIN queue)
    /\ \E start \in Seq32, end \in Seq32 :
           /\ ack_accepted(start, end)
           /\ gt(start, first_key(queue))
           /\ ack_now(start, end).ret = 0
    /\ \E start \in Seq32, end \in Seq32 :
           /\ gt(end, start) /\ lt(start, unsent) /\ gt(end, unsent)
           /\ ack_now(start, end).ret = 0

\* C14: the buffered segments are contiguous: each segment ends where the
\* next key starts, and the last one ends at enqueue.
C14_Contiguous ==
    (~hung /\ ~spanic) =>
        \A k \in DOMAIN queue :
            LET e == wrapping_add(k, Len(queue[k]))
            IN  e = enqueue \/ e \in DOMAIN queue

\* the position reached by walking from k over the segments, each one ending
\* where the next key starts
RECURSIVE walk_end(_, _, _)
walk_end(q, k, fuel) ==
    IF fuel > 0 /\ k \in DOMAIN q
    THEN walk_end(q, wrapping_add(k, Len(q[k])), fuel - 1)
    ELSE k

\* C14, amended: the buffered segments lie in order between the earliest key
\* and enqueue without overlap: each segment ends at or before the next key
\* and the last one at or before enqueue, less than half the sequence space
\* from the earliest key; from unsent on no segment is missing: walking from
\* unsent and adding each segment's length reaches the next key, with no gap,
\* and ends at enqueue.
C14_OrderedNoOverlap ==
    (~hung /\ ~spanic) =>
        /\ DOMAIN queue # {} =>
               LET f == first_key(queue)
               IN  /\ distance(f, enqueue) < SeqHalf
                   /\ \A k \in DOMAIN queue :
                          /\ Len(queue[k]) >= 1
                          /\ distance(f, k) + Len(queue[k]) <= distance(f, enqueue)
                          /\ \A k2 \in DOMAIN queue :
                                 distance(f, k) < distance(f, k2) =>
                                     distance(f, k) + Len(queue[k]) <= distance(f, k2)
        /\ walk_end(queue, unsent, SeqMod) = enqueue
        /\ \A k \in DOMAIN queue :
               ge(k, unsent) => distance(unsent, k) < distance(unsent, enqueue)

\* C14's case: an ack removed a segment between two buffered ones, and two
\* segments not yet handed out follow one another up to enqueue
C14_Witness ==
    /\ ~hung /\ ~spanic
    /\ \E k \in DOMAIN queue :
           LET e == wrapping_add(k, Len(queue[k]))
           IN  /\ lt(e, unsent)
               /\ e \notin DOMAIN queue
               /\ \E k2 \in DOMAIN queue : gt(k2, e) /\ lt(k2, unsent)
    /\ \E k \in DOMAIN queue :
           /\ ge(k, unsent)
           /\ wrapping_add(k, Len(queue[k])) \in DOMAIN queue

\* C15: ack(start, end) removes a segment only when [start, end) covers the
\* whole segment: start <= key and key + len <= end; every other segment stays
\* in the queue and get(key) still returns it.
C15_AckWholeSegment ==
    (~hung /\ ~spanic) =>
        \A start \in Seq32, end \in Seq32 :
            LET r == ack_now(start, end)
            IN  ~r.panic =>
                    \A k \in DOMAIN queue :
                        \/ /\ le(start, k)
                           /\ le(wrapping_add(k, Len(queue[k])), end)
                        \/ /\ get_of(r.queue, k).some
                           /\ get_of(r.queue, k).bytes = queue[k]

\* C16: every call of push_back returns: the segment-creation loop is never
\* in a round that makes no progress.
C16_PushBackTerminates == ~hung

\* C20: unsent <= enqueue; when unsent < enqueue, unsent is the key of a
\* buffered segment and pop_unsent does not panic; ack removes no segment at
\* or after unsent, and push_back changes no segment that starts before
\* unsent.
C20_UnsentIsKey ==
    (~hung /\ ~spanic) =>
        /\ le(unsent, enqueue)
        /\ lt(unsent, enqueue) => (unsent \in DOMAIN queue /\ ~pop_unsent_now.panic)
        /\ \A start \in Seq32, end \in Seq32 :
               \A k \in DOMAIN queue :
                   ge(k, unsent) =>
                       /\ k \in DOMAIN ack_now(start, end).queue
                       /\ ack_now(start, end).queue[k] = queue[k]
        /\ \A n \in 0 .. MaxPush :
               \A k \in DOMAIN queue :
                   lt(k, unsent) =>
                       /\ k \in DOMAIN push_back_now(stream_bytes(accepted, n)).queue
                       /\ push_back_now(stream_bytes(accepted, n)).queue[k] = queue[k]

\* C20's case: a short segment was handed out and a later one is waiting at
\* unsent; an ack that ends at unsent removes segments, and a push is accepted
C20_Witness ==
    /\ ~hung /\ ~spanic
    /\ lt(unsent, enqueue)
    /\ pop_unsent_now.some
    /\ \E k \in DOMAIN queue : lt(k, unsent) /\ Len(queue[k]) < mss
    /\ \E start \in Seq32 : ack_now(start, unsent).ret >= 1
    /\ \E n \in 1 .. MaxPush : push_back_now(stream_bytes(accepted, n)).ret

\* ----------------------------------------------------- RangeSet properties

\* the positions of the range [s, e)
range_positions(s, e) == {wrapping_add(s, i) : i \in 0 .. (wrapping_sub(e, s) - 1)}

\* the positions covered by the ranges of a set
coverage(m) == UNION {range_positions(k, m[k]) : k \in DOMAIN m}

\* C11: insert(start, end) returns true exactly when [start, end) is non-empty
\* and not entirely covered by the set; after true the coverage is the old
\* coverage united with [start, end); after false the stored ranges, and so
\* len(), are as they were.
C11_InsertContract ==
    \A start \in Window, end \in Window :
        LET r == insert_now(start, end)
        IN  /\ r.ret <=> (/\ lt(start, end)
                          /\ ~(range_positions(start, end) \subseteq coverage(rset)))
            /\ r.ret => coverage(r.map)
                            = coverage(rset) \cup range_positions(start, end)
            /\ ~r.ret => (r.map = rset /\ len_of(r.map) = len_of(rset))

\* C11's case: the window wraps around the sequence space and the set holds
\* two ranges; an insert of a covered range is refused, and an insert that
\* bridges the two ranges is accepted and leaves one range
C11_Witness ==
    /\ len_of(rset) = 2
    /\ \E k \in DOMAIN rset : rset[k] < k
    /\ \E start \in Window, end \in Window :
           /\ lt(start, end)
           /\ ~insert_now(start, end).ret
    /\ \E start \in Window, end \in Window :
           /\ insert_now(start, end).ret
           /\ len_of(insert_now(start, end).map) = 1

\* the non-empty ranges of the window
WindowRanges == {r \in Window \X Window : lt(r[1], r[2])}

\* the set after inserting the ranges of a sequence in order
RECURSIVE insert_all(_, _)
insert_all(m, rs) ==
    IF rs = << >> THEN m
    ELSE insert_all(insert_of(m, Head(rs)[1], Head(rs)[2]).map, Tail(rs))

\* an enumeration order of the window's ranges, to take each pair and each
\* triple of different ranges once
range_rank(r) == wrapping_sub(r[1], rbase) * SeqHalf + wrapping_sub(r[2], rbase)

\* C12: the stored set does not depend on the insertion order.  In every
\* reachable set two ranges inserted in either order leave the same stored
\* ranges (so any reordering of any sequence of inserts, a product of such
\* swaps, ends in the same set), and from the empty set every order of three
\* ranges ends in the same stored ranges, so in the same coverage and len().
C12_OrderIndependent ==
    /\ \A a \in WindowRanges, b \in WindowRanges :
           range_rank(a) < range_rank(b) =>
               insert_all(rset, << a, b >>) = insert_all(rset, << b, a >>)
    /\ rset = EmptyMap =>
           \A a \in WindowRanges, b \in WindowRanges :
               range_rank(a) < range_rank(b) =>
                   \A c \in WindowRanges :
                       range_rank(b) < range_rank(c) =>
                           LET abc == insert_all(rset, << a, b, c >>)
                           IN  /\ insert_all(rset, << a, c, b >>) = abc
                               /\ insert_all(rset, << b, a, c >>) = abc
                               /\ insert_all(rset, << b, c, a >>) = abc
                               /\ insert_all(rset, << c, a, b >>) = abc
                               /\ insert_all(rset, << c, b, a >>) = abc

\* C12's case: the set holds a range, and two overlapping ranges, each adding
\* coverage whichever goes first, leave different sets after the first insert
C12_Witness ==
    /\ rset # EmptyMap
    /\ \E a \in WindowRanges, b \in WindowRanges :
           /\ range_positions(a[1], a[2]) \cap range_positions(b[1], b[2]) # {}
           /\ insert_all(rset, << a >>) # insert_all(rset, << b >>)
           /\ insert_all(rset, << a, b >>) # insert_all(rset, << a >>)
           /\ insert_all(rset, << b, a >>) # insert_all(rset, << b >>)

\* C13: every stored range has start < end, and of two stored ranges the
\* earlier one's end is strictly less than the later one's start.
C13_NoOverlapNoTouch ==
    /\ \A k \in DOMAIN rset : lt(k, rset[k])
    /\ \A k1 \in DOMAIN rset, k2 \in DOMAIN rset :
           lt(k1, k2) => lt(rset[k1], k2)

\* C13's case: two stored ranges one position apart, in a window that wraps;
\* an insert that ends where the later range starts merges with it
C13_Witness ==
    /\ \E k1 \in DOMAIN rset, k2 \in DOMAIN rset :
           /\ wrapping_add(rset[k1], 1) = k2
           /\ k2 < k1
    /\ \E start \in Window, end \in Window :
           /\ end \in DOMAIN rset
           /\ lt(start, end)
           /\ insert_now(start, end).ret
           /\ end \notin DOMAIN insert_now(start, end).map

\* -------------------------------------------------------- Seq32 properties

\* C21: for every pair exactly one of a < b, a == b, a > b holds, and a < b
\* holds if and only if b > a.
C21_CmpConsistent ==
    ordering # "none" =>
        /\ ordering \in {"Less", "Equal", "Greater"}
        /\ (ordering = "Equal") <=> (this = other)
        /\ (ordering = "Less") <=> (reverse = "Greater")

\* C21, amended: for every pair exactly one of a < b, a == b, a > b holds;
\* a < b holds if and only if b > a for every pair that is not exactly half
\* the space apart; of a pair exactly half the space apart each is less than
\* the other.
C21_CmpConsistentApart ==
    ordering # "none" =>
        /\ ordering \in {"Less", "Equal", "Greater"}
        /\ (ordering = "Equal") <=> (this = other)
        /\ wrapping_sub(this, other) # SeqHalf =>
               /\ (ordering = "Less") <=> (reverse = "Greater")
               /\ (ordering = "Greater") <=> (reverse = "Less")
               /\ (ordering = "Greater") <=>
                      (this # other /\ wrapping_sub(this, other) < SeqHalf)
        /\ wrapping_sub(this, other) = SeqHalf =>
               (ordering = "Less" /\ reverse = "Less")

\* C21's case: after this moved on past the wrap, the two values are exactly
\* half the space apart and were compared both ways
C21_Witness ==
    /\ ordering # "none"
    /\ this < other
    /\ wrapping_sub(this, other) = SeqHalf
    /\ reverse = "Less"

=============================================================================
